---- MODULE Spec2Model ----
(***************************************************************************)
(* Model of src/equ.py: the AudioWorker engine of the ten-band equalizer.  *)
(*                                                                         *)
(* Two execution contexts share the AudioWorker object without any lock:   *)
(*   - the control context (Qt main thread): load_file/_update_filters,    *)
(*     toggle_play and the slider/checkbox setters;                        *)
(*   - the real-time context (PortAudio thread): AudioWorker.callback.     *)
(* Each context is a small program counter machine; one action is one      *)
(* attribute read or write group of the corresponding handler, so that the *)
(* interleavings the interpreter allows between them are explored.         *)
(*                                                                         *)
(* Numbers are fixed point.  A sample of the decoded file is an integer in *)
(* -1..1 (full scale 1).  preamp is kept as its slider value (value /      *)
(* PreampDiv), master_vol as its slider value (value / MasterDiv), and     *)
(* 10^(dB/20) as hundredths (GainDiv).  An output sample is therefore an   *)
(* integer with OutOne standing for 1.0.                                   *)
(***************************************************************************)
EXTENDS Integers, Sequences, FiniteSets, TLC

\* ---------------------------------------------------------------- bounds
\* Block length handed to callback (BLOCK_SIZE, scaled down).
Frames == 2
\* load_file calls explored per run.
MaxLoads == 2
\* Slider / checkbox events explored per run.
MaxSetterCalls == 2

\* ------------------------------------------------------ program constants
PreampDiv == 50
MasterDiv == 100
GainDiv == 100
BoosterDb == 8
MaxBandDb == 15
MaxBoost == 15

BANDS == <<32, 64, 125, 250, 500, 1000, 2000, 4000, 8000, 16000>>
BandIdx == 0 .. (Len(BANDS) - 1)

OutOne == PreampDiv * GainDiv * MasterDiv

\* ------------------------------------------------------------- utilities
Min(a, b) == IF a < b THEN a ELSE b
Abs(a) == IF a < 0 THEN -a ELSE a

\* ----------------------------------------------------------------- inputs
\* What sf.read(path, always_2d=True) can deliver: (data, fs).  One channel
\* is kept; every channel goes through the same arithmetic.
Tracks ==
  << [fs |-> 44100, samples |-> <<1, 0, 1, -1, -1>>],
     [fs |-> 22050, samples |-> <<-1, 1, 1>>],
     [fs |-> 48000, samples |-> <<1, 1, -1, 0>>] >>
TrackIds == 1 .. Len(Tracks)

\* Values the sliders are moved to in the explored runs.
BandInputs == {0, 5, 9}
GainInputs == {-MaxBandDb, 0, MaxBandDb}
BoostInputs == {0, MaxBoost}
PreampInputs == {5, 100}
MasterInputs == {10, 100}

\* Contents PortAudio may hand over in outdata (the buffer is uninitialised):
\* whatever the previous call left there, or arbitrary out-of-range floats.
GarbageBlock == [k \in 1 .. Frames |-> 3 * OutOne]
ZeroBlock == [k \in 1 .. Frames |-> 0]

VARIABLES
  \* AudioWorker fields
  data, fs, current_frame, is_playing, gains, preamp, master_vol,
  bass_boost, treble_boost, is_bass_booster_active, sos_filters,
  heap,            \* list objects ever bound to sos_filters, by load number
  \* control context
  ctl_pc, ld_track, ld_i, tg_val, loads, setterCalls, loadRaised,
  \* real-time context: callback's position, arguments and locals
  cb_pc, outdata, chunk_end, chunk, processed_chunk, cb_i, sosRef, adv_tmp,
  total_gain, linear_gain,
  \* history (observations) used to state the properties
  obs, emitted, eos, undisturbed, posEpoch, flat

playVars == <<data, fs, current_frame, is_playing, sos_filters, heap>>
paramVars == <<gains, preamp, master_vol, bass_boost, treble_boost,
               is_bass_booster_active>>
ctlVars == <<ctl_pc, ld_track, ld_i, tg_val, loads, setterCalls, loadRaised>>
cbLocals == <<chunk_end, chunk, processed_chunk, cb_i, sosRef, adv_tmp,
              total_gain, linear_gain>>
cbVars == <<cb_pc, outdata, cbLocals>>
histVars == <<obs, emitted, eos, undisturbed, posEpoch, flat>>
vars == <<playVars, paramVars, ctlVars, cbVars, histVars>>

\* ------------------------------------------------------- pure operators
\* len(self.data); self.data is None is modelled as data = 0.
DataLen(d) == IF d = 0 THEN 0 ELSE Len(Tracks[d].samples)

\* self.data[a:b] : python slicing truncates at the end of the array.
Slice(d, a, b) == SubSeq(Tracks[d].samples, a + 1, Min(b, DataLen(d)))

\* _update_filters: low = freq * 0.707, high = min(freq * 1.414, fs / 2 - 1),
\* both in thousandths of a hertz.
LowCut(freq) == freq * 707
HighCut(freq, rate) == Min(freq * 1414, rate * 500 - 1000)

\* bessel(2, [low, high], btype='bandpass', fs=...) rejects a band whose
\* edges are not increasing (ValueError).
BesselRaises(freq, rate) == ~(LowCut(freq) < HighCut(freq, rate))

\* The second-order sections are a function of the design parameters, which
\* stand for them here.
Bessel(freq, rate) ==
  [kind |-> "bandpass", low |-> LowCut(freq), high |-> HighCut(freq, rate),
   fs |-> rate]

\* if chunk_end > len(self.data)
PastEndOffByOne(end, len) == end >= len
PastEnd(end, len) == end > len

\* total_gain of band i from the values read for it.
TotalGain(i, g, bass, booster, treble) ==
  g + (IF i <= 2 THEN bass + (IF booster THEN BoosterDb ELSE 0) ELSE 0)
    + (IF i >= 7 THEN treble ELSE 0)
MinTotalDb == -MaxBandDb
MaxTotalDb == MaxBandDb + MaxBoost + BoosterDb

\* 10**(dB/20) in hundredths, dB = -15 .. 38.
Pow10Table ==
  <<18, 20, 22, 25, 28, 32, 35, 40, 45, 50, 56, 63, 71, 79, 89,
    100,
    112, 126, 141, 158, 178, 200, 224, 251, 282, 316, 355, 398, 447, 501, 562,
    631, 708, 794, 891, 1000, 1122, 1259, 1413, 1585, 1778, 1995, 2239, 2512,
    2818, 3162, 3548, 3981, 4467, 5012, 5623, 6310, 7079, 7943>>
Pow10Centi(db) == Pow10Table[db - MinTotalDb + 1]

\* linear_gain = 10**(total_gain/20) - 1
LinearGainSwapped(db) == GainDiv - Pow10Centi(db)
LinearGain(db) == Pow10Centi(db) - GainDiv

\* if total_gain != 0
RunsFilterAlways(db) == TRUE
RunsFilter(db) == db # 0

\* sosfilt(sos, chunk, axis=0): a causal linear filter started from rest on
\* every call (no zi is passed).  A first difference stands for the band-pass
\* response; its magnitude response is not modelled.
SosFilt(sos, x) ==
  [j \in 1 .. Len(x) |-> IF j = 1 THEN x[1] ELSE x[j] - x[j - 1]]

\* processed_chunk += filtered * linear_gain (when the band is not skipped)
ApplyBand(p, x, sos, db) ==
  IF RunsFilter(db)
    THEN [j \in 1 .. Len(p) |-> p[j] + SosFilt(sos, x)[j] * LinearGain(db)]
    ELSE p

ClipSample(v) ==
  IF v > OutOne THEN OutOne ELSE IF v < -OutOne THEN -OutOne ELSE v

\* np.clip(processed_chunk, -1, 1, outdata): the result is broadcast into
\* outdata; a row count other than 1 or that of outdata raises ValueError.
ClipRaises(p) == Len(p) # Frames /\ Len(p) # 1
ClipInto(p) ==
  [k \in 1 .. Frames |-> ClipSample(IF Len(p) = 1 THEN p[1] ELSE p[k])]

ScaleSeq(s, f) == [j \in 1 .. Len(s) |-> s[j] * f]

FlatValues(g, b, t, k) ==
  /\ \A i \in BandIdx : g[i] = 0
  /\ b = 0
  /\ t = 0
  /\ ~k
ParamsFlat ==
  FlatValues(gains, bass_boost, treble_boost, is_bass_booster_active)

BlankObs ==
  [result |-> "none", lenEpoch |-> 0, sliceEpoch |-> 0, posEpoch |-> 0,
   checkStart |-> 0, sliceStart |-> 0, track |-> 0, raw |-> <<>>, pre |-> 0,
   master |-> 0, bank |-> <<>>, seen |-> <<>>, ran |-> {}]

\* ------------------------------------------------------------------ Init
\* AudioWorker.__init__, with the sliders at the given positions.
InitWith(g, b, t, k) ==
  /\ data = 0
  /\ fs = 44100
  /\ current_frame = 0
  /\ is_playing = FALSE
  /\ gains = g
  /\ preamp = 50
  /\ master_vol = 80
  /\ bass_boost = b
  /\ treble_boost = t
  /\ is_bass_booster_active = k
  /\ sos_filters = 0
  /\ heap = [e \in 0 .. MaxLoads |-> <<>>]
  /\ ctl_pc = "idle"
  /\ ld_track = 0
  /\ ld_i = 0
  /\ tg_val = FALSE
  /\ loads = 0
  /\ setterCalls = 0
  /\ loadRaised = FALSE
  /\ cb_pc = "idle"
  /\ outdata = ZeroBlock
  /\ chunk_end = 0
  /\ chunk = <<>>
  /\ processed_chunk = <<>>
  /\ cb_i = 0
  /\ sosRef = 0
  /\ adv_tmp = 0
  /\ total_gain = 0
  /\ linear_gain = 0
  /\ obs = BlankObs
  /\ emitted = 0
  /\ eos = FALSE
  /\ undisturbed = FALSE
  /\ posEpoch = 0
  /\ flat = FALSE

Init == InitWith([i \in BandIdx |-> 0], 0, 0, FALSE)

\* ------------------------------------------------- control context: load
\* load_file: self.data, self.fs = sf.read(...) stores data, then fs.
LoadData(t) ==
  /\ ctl_pc = "idle"
  /\ loads < MaxLoads
  /\ data' = t
  /\ ld_track' = t
  /\ loads' = loads + 1
  /\ ctl_pc' = "ld_fs"
  /\ emitted' = 0
  /\ eos' = FALSE
  /\ undisturbed' = (~is_playing /\ cb_pc = "idle")
  /\ UNCHANGED <<fs, current_frame, is_playing, sos_filters, heap, paramVars,
                 ld_i, tg_val, setterCalls, loadRaised, cbVars,
                 obs, posEpoch, flat>>

LoadFs ==
  /\ ctl_pc = "ld_fs"
  /\ fs' = Tracks[ld_track].fs
  /\ ctl_pc' = "ld_frame"
  /\ UNCHANGED <<data, current_frame, is_playing, sos_filters, heap, paramVars,
                 ld_track, ld_i, tg_val, loads, setterCalls, loadRaised,
                 cbVars, histVars>>

\* self.current_frame = 0
LoadFrame ==
  /\ ctl_pc = "ld_frame"
  /\ current_frame' = 0
  /\ posEpoch' = loads
  /\ eos' = FALSE
  /\ ctl_pc' = "ld_clear"
  /\ UNCHANGED <<data, fs, is_playing, sos_filters, heap, paramVars,
                 ld_track, ld_i, tg_val, loads, setterCalls, loadRaised,
                 cbVars, obs, emitted, undisturbed, flat>>

\* _update_filters: self.sos_filters = []  (a fresh list object)
LoadClear ==
  /\ ctl_pc = "ld_clear"
  /\ sos_filters' = loads
  /\ heap' = [heap EXCEPT ![loads] = <<>>]
  /\ ld_i' = 0
  /\ ctl_pc' = "ld_band"
  /\ UNCHANGED <<data, fs, current_frame, is_playing, paramVars,
                 ld_track, tg_val, loads, setterCalls, loadRaised,
                 cbVars, histVars>>

\* _update_filters: one iteration of "for freq in BANDS"; the ValueError of
\* bessel leaves load_file (and the slot that called it) with the list as
\* built so far.
LoadBand ==
  /\ ctl_pc = "ld_band"
  /\ IF BesselRaises(BANDS[ld_i + 1], fs)
       THEN /\ loadRaised' = TRUE
            /\ ctl_pc' = "idle"
            /\ ld_i' = 0
            /\ heap' = heap
       ELSE /\ heap' = [heap EXCEPT ![sos_filters] =
                          Append(@, Bessel(BANDS[ld_i + 1], fs))]
            /\ loadRaised' = loadRaised
            /\ ld_i' = IF ld_i + 1 = Len(BANDS) THEN 0 ELSE ld_i + 1
            /\ ctl_pc' = IF ld_i + 1 = Len(BANDS) THEN "idle" ELSE "ld_band"
  /\ UNCHANGED <<data, fs, current_frame, is_playing, sos_filters, paramVars,
                 ld_track, tg_val, loads, setterCalls, cbVars, histVars>>

\* ------------------------------------------ control context: toggle_play
\* self.worker.is_playing = not self.worker.is_playing : read, then write.
TogglePlay ==
  /\ ctl_pc = "idle"
  /\ data # 0
  /\ tg_val' = ~is_playing
  /\ ctl_pc' = "tg_write"
  /\ UNCHANGED <<playVars, paramVars, ld_track, ld_i, loads, setterCalls,
                 loadRaised, cbVars, histVars>>

ToggleWrite ==
  /\ ctl_pc = "tg_write"
  /\ is_playing' = tg_val
  /\ tg_val' = FALSE
  /\ ctl_pc' = "idle"
  /\ UNCHANGED <<data, fs, current_frame, sos_filters, heap, paramVars,
                 ld_track, ld_i, loads, setterCalls, loadRaised, cbVars,
                 histVars>>

\* ---------------------------------------------- control context: setters
\* One valueChanged / stateChanged event: a single attribute store.
Setter(g, p, m, b, t, k) ==
  /\ ctl_pc = "idle"
  /\ setterCalls < MaxSetterCalls
  /\ gains' = g
  /\ preamp' = p
  /\ master_vol' = m
  /\ bass_boost' = b
  /\ treble_boost' = t
  /\ is_bass_booster_active' = k
  /\ setterCalls' = setterCalls + 1
  /\ flat' = (flat /\ FlatValues(g, b, t, k))
  /\ UNCHANGED <<playVars, ctl_pc, ld_track, ld_i, tg_val, loads, loadRaised,
                 cbVars, obs, emitted, eos, undisturbed, posEpoch>>

\* update_band(index, val)
UpdateBand(i, v) ==
  /\ v # gains[i]
  /\ Setter([gains EXCEPT ![i] = v], preamp, master_vol, bass_boost,
            treble_boost, is_bass_booster_active)

\* bass_slider.valueChanged -> setattr(worker, 'bass_boost', v)
SetBassBoost(v) ==
  /\ v # bass_boost
  /\ Setter(gains, preamp, master_vol, v, treble_boost, is_bass_booster_active)

\* treble_slider.valueChanged -> setattr(worker, 'treble_boost', v)
SetTrebleBoost(v) ==
  /\ v # treble_boost
  /\ Setter(gains, preamp, master_vol, bass_boost, v, is_bass_booster_active)

\* toggle_bass_booster(state): the checkbox flips
ToggleBassBooster ==
  Setter(gains, preamp, master_vol, bass_boost, treble_boost,
         ~is_bass_booster_active)

\* update_preamp(val): preamp = val / 50.0
UpdatePreamp(v) ==
  /\ v # preamp
  /\ Setter(gains, v, master_vol, bass_boost, treble_boost,
            is_bass_booster_active)

\* update_master(val): master_vol = val / 100.0
UpdateMaster(v) ==
  /\ v # master_vol
  /\ Setter(gains, preamp, v, bass_boost, treble_boost,
            is_bass_booster_active)

\* ------------------------------------------- real-time context: callback
\* The locals of an invocation die when it returns.
ReturnLocals ==
  /\ chunk_end' = 0
  /\ chunk' = <<>>
  /\ processed_chunk' = <<>>
  /\ cb_i' = 0
  /\ sosRef' = 0
  /\ adv_tmp' = 0
  /\ total_gain' = 0
  /\ linear_gain' = 0

\* A new invocation: if not self.is_playing or self.data is None: fill(0).
CbEnter ==
  /\ cb_pc = "idle"
  /\ \E g \in {outdata, GarbageBlock} :
       IF ~is_playing \/ data = 0
         THEN /\ outdata' = ZeroBlock
              /\ cb_pc' = "idle"
              /\ obs' = [BlankObs EXCEPT !.result = "silent"]
              /\ flat' = FALSE
         ELSE /\ outdata' = g
              /\ cb_pc' = "end"
              /\ obs' = [BlankObs EXCEPT !.result = "running"]
              /\ flat' = ParamsFlat
  /\ UNCHANGED <<playVars, paramVars, ctlVars, cbLocals,
                 emitted, eos, undisturbed, posEpoch>>

\* chunk_end = self.current_frame + frames
CbChunkEnd ==
  /\ cb_pc = "end"
  /\ chunk_end' = current_frame + Frames
  /\ obs' = [obs EXCEPT !.checkStart = current_frame, !.posEpoch = posEpoch]
  /\ cb_pc' = "len"
  /\ UNCHANGED <<playVars, paramVars, ctlVars, outdata, chunk,
                 processed_chunk, cb_i, sosRef, adv_tmp, total_gain,
                 linear_gain, emitted, eos, undisturbed, posEpoch, flat>>

\* if chunk_end > len(self.data): self.is_playing = False; return
CbCheckLen ==
  /\ cb_pc = "len"
  /\ IF PastEnd(chunk_end, DataLen(data))
       THEN /\ is_playing' = FALSE
            /\ eos' = TRUE
            /\ cb_pc' = "idle"
            /\ ReturnLocals
            /\ obs' = [BlankObs EXCEPT !.result = "eos"]
            /\ flat' = FALSE
       ELSE /\ cb_pc' = "slice"
            /\ obs' = [obs EXCEPT !.lenEpoch = loads]
            /\ UNCHANGED <<is_playing, eos, cbLocals, flat>>
  /\ UNCHANGED <<data, fs, current_frame, sos_filters, heap, paramVars,
                 ctlVars, outdata, emitted, undisturbed, posEpoch>>

\* chunk = self.data[self.current_frame:chunk_end].copy()
CbSlice ==
  /\ cb_pc = "slice"
  /\ chunk' = Slice(data, current_frame, chunk_end)
  /\ obs' = [obs EXCEPT !.sliceEpoch = loads, !.sliceStart = current_frame,
                        !.track = data,
                        !.raw = Slice(data, current_frame, chunk_end)]
  /\ cb_pc' = "preamp"
  /\ UNCHANGED <<playVars, paramVars, ctlVars, outdata, chunk_end,
                 processed_chunk, cb_i, sosRef, adv_tmp, total_gain,
                 linear_gain, emitted, eos, undisturbed, posEpoch, flat>>

\* chunk *= self.preamp ; processed_chunk = chunk.copy()
CbPreamp ==
  /\ cb_pc = "preamp"
  /\ chunk' = ScaleSeq(chunk, preamp)
  /\ processed_chunk' = ScaleSeq(ScaleSeq(chunk, preamp), GainDiv)
  /\ obs' = [obs EXCEPT !.pre = preamp]
  /\ cb_pc' = "filters"
  /\ UNCHANGED <<playVars, paramVars, ctlVars, outdata, chunk_end, cb_i,
                 sosRef, adv_tmp, total_gain, linear_gain, emitted, eos,
                 undisturbed, posEpoch, flat>>

\* enumerate(self.sos_filters): the list object is fetched once
CbFilters ==
  /\ cb_pc = "filters"
  /\ sosRef' = sos_filters
  /\ cb_i' = 0
  /\ cb_pc' = "band"
  /\ UNCHANGED <<playVars, paramVars, ctlVars, outdata, chunk_end, chunk,
                 processed_chunk, adv_tmp, total_gain, linear_gain,
                 histVars>>

\* One iteration of the band loop, or its end when the list (as it is now)
\* has no element at the iterator's index.
CbBand ==
  /\ cb_pc = "band"
  /\ IF cb_i < Len(heap[sosRef])
       THEN LET sos == heap[sosRef][cb_i + 1]
                db == TotalGain(cb_i, gains[cb_i], bass_boost,
                                is_bass_booster_active, treble_boost)
            IN  /\ total_gain' = db
                /\ linear_gain' =
                     IF RunsFilter(db) THEN LinearGain(db) ELSE linear_gain
                /\ processed_chunk' = ApplyBand(processed_chunk, chunk, sos, db)
                /\ cb_i' = cb_i + 1
                /\ cb_pc' = "band"
                /\ obs' = [obs EXCEPT
                             !.bank = Append(@, sos),
                             !.seen = Append(@, gains[cb_i]),
                             !.ran = IF RunsFilter(db) THEN @ \cup {cb_i}
                                                       ELSE @]
       ELSE /\ cb_pc' = "master"
            /\ UNCHANGED <<total_gain, linear_gain, processed_chunk, cb_i,
                           obs>>
  /\ UNCHANGED <<playVars, paramVars, ctlVars, outdata, chunk_end, chunk,
                 sosRef, adv_tmp, emitted, eos, undisturbed, posEpoch, flat>>

\* processed_chunk *= self.master_vol ; np.clip(processed_chunk, -1, 1, outdata)
\* An exception leaving the callback aborts the stream: no later invocation.
CbMaster ==
  /\ cb_pc = "master"
  /\ processed_chunk' = ScaleSeq(processed_chunk, master_vol)
  /\ IF ClipRaises(processed_chunk)
       THEN /\ cb_pc' = "aborted"
            /\ obs' = [obs EXCEPT !.result = "raised"]
            /\ UNCHANGED <<outdata, emitted>>
       ELSE /\ outdata' = ClipInto(ScaleSeq(processed_chunk, master_vol))
            /\ cb_pc' = "adv_read"
            /\ obs' = [obs EXCEPT !.master = master_vol]
            /\ emitted' = IF obs.sliceEpoch = loads THEN emitted + 1
                                                    ELSE emitted
  /\ UNCHANGED <<playVars, paramVars, ctlVars, chunk_end, chunk, cb_i, sosRef,
                 adv_tmp, total_gain, linear_gain, eos, undisturbed, posEpoch,
                 flat>>

\* self.current_frame += frames : read ...
CbAdvRead ==
  /\ cb_pc = "adv_read"
  /\ adv_tmp' = current_frame
  /\ cb_pc' = "adv_write"
  /\ UNCHANGED <<playVars, paramVars, ctlVars, outdata, chunk_end, chunk,
                 processed_chunk, cb_i, sosRef, total_gain, linear_gain,
                 histVars>>

\* ... then write, and return
CbAdvWrite ==
  /\ cb_pc = "adv_write"
  /\ current_frame' = adv_tmp + Frames
  /\ cb_pc' = "idle"
  /\ ReturnLocals
  /\ obs' = [BlankObs EXCEPT !.result = "block"]
  /\ flat' = FALSE
  /\ UNCHANGED <<data, fs, is_playing, sos_filters, heap, paramVars, ctlVars,
                 outdata, emitted, eos, undisturbed, posEpoch>>

\* -------------------------------------------------------- specifications
Load == (\E t \in TrackIds : LoadData(t)) \/ LoadFs \/ LoadFrame \/ LoadClear
          \/ LoadBand
LoadOnce == (loads = 0 /\ \E t \in TrackIds : LoadData(t)) \/ LoadFs
              \/ LoadFrame \/ LoadClear \/ LoadBand
Toggle == TogglePlay \/ ToggleWrite
Setters ==
  \/ \E i \in BandInputs, v \in GainInputs : UpdateBand(i, v)
  \/ \E v \in BoostInputs : SetBassBoost(v)
  \/ \E v \in BoostInputs : SetTrebleBoost(v)
  \/ ToggleBassBooster
  \/ \E v \in PreampInputs : UpdatePreamp(v)
  \/ \E v \in MasterInputs : UpdateMaster(v)
Callback == CbEnter \/ CbChunkEnd \/ CbCheckLen \/ CbSlice \/ CbPreamp
              \/ CbFilters \/ CbBand \/ CbMaster \/ CbAdvRead \/ CbAdvWrite

\* The whole program: every control operation against the callback.
Next == Load \/ Toggle \/ Setters \/ Callback
Spec == Init /\ [][Next]_vars

\* Playback with the sliders left alone.
NextPlay == Load \/ Toggle \/ Callback
SpecPlay == Init /\ [][NextPlay]_vars

\* One track, the sliders moved while it plays.
NextTune == LoadOnce \/ Toggle \/ Setters \/ Callback
SpecTune == Init /\ [][NextTune]_vars

\* The gain arithmetic of one band (lines 73-83) on its own, over the whole
\* range of the sliders: one band slider anywhere in -15..15, the boosts at
\* several levels.
BoostLevels == {0, 5, 10, MaxBoost}
InitGain ==
  \E b \in BandIdx, g \in (-MaxBandDb) .. MaxBandDb,
     bb \in BoostLevels, t \in BoostLevels, k \in BOOLEAN :
    InitWith([i \in BandIdx |-> IF i = b THEN g ELSE 0], bb, t, k)

EvalBandGain(i) ==
  /\ cb_i' = i
  /\ total_gain' = TotalGain(i, gains[i], bass_boost, is_bass_booster_active,
                             treble_boost)
  /\ linear_gain' = LinearGain(TotalGain(i, gains[i], bass_boost,
                                         is_bass_booster_active, treble_boost))
  /\ UNCHANGED <<playVars, paramVars, ctlVars, cb_pc, outdata, chunk_end,
                 chunk, processed_chunk, sosRef, adv_tmp, histVars>>

NextGain == \E i \in BandIdx : EvalBandGain(i)
SpecGain == InitGain /\ [][NextGain]_vars

\* ------------------------------------------------------------ properties
BlockDone == cb_pc = "adv_read"
FullBlocks(d) == DataLen(d) \div Frames
RepositionPending == ctl_pc \in {"ld_fs", "ld_frame"}

\* C1: a block is processed with the buffer, the position and the filter
\* bank all taken from one side of a load: the buffer whose length was
\* checked is the one sliced, at the position that was checked, that position
\* belongs to that buffer, and the bank is the ten filters built for that
\* buffer's sample rate; no invocation breaks down (loads that raise aside).
C1_LoadAtomic ==
  ~loadRaised =>
    /\ cb_pc # "aborted"
    /\ BlockDone =>
         /\ obs.lenEpoch = obs.sliceEpoch
         /\ obs.posEpoch = obs.sliceEpoch
         /\ obs.sliceStart = obs.checkStart
         /\ sosRef = obs.sliceEpoch
         /\ Len(obs.bank) = Len(BANDS)
         /\ \A j \in 1 .. Len(obs.bank) : obs.bank[j].fs = Tracks[obs.track].fs

\* The band loop of section 4.3 run with one value of bass boost, booster
\* flag and treble boost for all bands.
RECURSIVE BandLoop(_, _, _, _, _, _, _, _)
BandLoop(p, x, bank, gs, i, b, k, t) ==
  IF i >= Len(bank) THEN p
  ELSE BandLoop(ApplyBand(p, x, bank[i + 1], TotalGain(i, gs[i + 1], b, k, t)),
                x, bank, gs, i + 1, b, k, t)

\* C2: the output of every block equals the section 4.3 result computed from
\* one single value per parameter field (one bass boost, one booster flag and
\* one treble boost for the three bands each applies to).
C2_SingleValuePerField ==
  BlockDone =>
    \E b \in BoostInputs, k \in BOOLEAN, t \in BoostInputs :
      outdata = ClipInto(ScaleSeq(
                  BandLoop(ScaleSeq(chunk, GainDiv), chunk, obs.bank, obs.seen,
                           0, b, k, t),
                  obs.master))

\* C3: when the callback stops playback because the next block would pass the
\* end of the buffer, the output buffer of that call is silence.
C3_EndOfBufferSilence ==
  obs.result = "eos" => outdata = ZeroBlock

\* C4: a buffer of length L loaded while nothing plays and played with block
\* size N emits at most floor(L/N) blocks, all of them inside
\* [0, N*floor(L/N)); the position is N times the number of blocks emitted;
\* and once playback has stopped at the end, exactly floor(L/N) blocks were
\* emitted and the position is the largest multiple of N that is <= L.
C4_Truncation ==
  (undisturbed /\ ~RepositionPending) =>
    /\ emitted <= FullBlocks(data)
    /\ cb_pc \in {"adv_read", "adv_write"} =>
         /\ chunk_end <= Frames * FullBlocks(data)
         /\ obs.sliceStart = chunk_end - Frames
         /\ obs.raw = SubSeq(Tracks[data].samples, chunk_end - Frames + 1,
                             chunk_end)
         /\ current_frame = Frames * (emitted - 1)
    /\ cb_pc \notin {"adv_read", "adv_write"} =>
         current_frame = Frames * emitted
    /\ eos => /\ emitted = FullBlocks(data)
              /\ current_frame = Frames * FullBlocks(data)

C4_Witness ==
  /\ undisturbed
  /\ eos
  /\ ~is_playing
  /\ DataLen(data) % Frames # 0
  /\ emitted = FullBlocks(data)
  /\ emitted >= 1
  /\ current_frame = Frames * FullBlocks(data)

\* C5: after every callback invocation every sample of the output buffer has
\* absolute value <= 1.
C5_OutputWithinUnit ==
  (cb_pc \in {"idle", "adv_read", "adv_write", "aborted"}
     /\ obs.result # "none") =>
    \A k \in 1 .. Frames : Abs(outdata[k]) <= OutOne

\* C6: for every processed block during which all ten band gains, the bass
\* boost and the treble boost are zero and the booster is inactive, no band
\* filter is run and the output is clip(chunk * preamp * masterVolume, -1, 1)
\* sample for sample.
C6_IdentityPath ==
  (BlockDone /\ flat) =>
    /\ obs.ran = {}
    /\ outdata = ClipInto([j \in 1 .. Len(obs.raw) |->
                             obs.raw[j] * obs.pre * GainDiv * obs.master])

C6_Witness ==
  /\ BlockDone
  /\ flat
  /\ obs.pre = 100
  /\ Len(obs.bank) = Len(BANDS)
  /\ \E k \in 1 .. Frames : outdata[k] = OutOne
  /\ \E k \in 1 .. Frames : outdata[k] = 0

\* C7: after a load at a sample rate for which some band's low cutoff is not
\* below its high cutoff, the rebuild has not raised, the bank holds ten
\* entries and the degenerate band's entry is a pass-through.
DegenerateBands(rate) ==
  {i \in 1 .. Len(BANDS) : BesselRaises(BANDS[i], rate)}
C7_DegenerateBandPassThrough ==
  (ctl_pc = "idle" /\ loads > 0 /\ DegenerateBands(fs) # {}) =>
    /\ ~loadRaised
    /\ Len(heap[sos_filters]) = Len(BANDS)
    /\ \A i \in DegenerateBands(fs) : heap[sos_filters][i].kind = "passthrough"

\* C8 (as stated): raising a band's total gain anywhere in -15 .. 38 dB never
\* decreases the magnitude of the multiplier 10^(dB/20) - 1.
C8_MagnitudeMonotone ==
  \A d \in total_gain .. MaxTotalDb : Abs(LinearGain(d)) >= Abs(linear_gain)

\* C8 (amended): raising a band's total gain never decreases the signed
\* multiplier 10^(dB/20) - 1, and never decreases its magnitude when the
\* total gain is at or above 0 dB.
C8_MultiplierMonotone ==
  /\ \A d \in total_gain .. MaxTotalDb : LinearGain(d) >= linear_gain
  /\ total_gain >= 0 =>
       \A d \in total_gain .. MaxTotalDb :
         Abs(LinearGain(d)) >= Abs(linear_gain)

C8_Witness ==
  /\ cb_i = 1
  /\ gains[1] = MaxBandDb
  /\ is_bass_booster_active
  /\ bass_boost = 0
  /\ total_gain = MaxBandDb + BoosterDb
  /\ linear_gain = 1313

\* C9: the position is N times the number of blocks emitted from the
\* currently loaded buffer, and the first block emitted from a buffer reads
\* its frames [0, N).
C9_PositionCountsBlocks ==
  /\ (cb_pc = "idle" /\ ~RepositionPending) =>
       current_frame = Frames * emitted
  /\ (BlockDone /\ obs.sliceEpoch = loads /\ emitted = 1) =>
       obs.sliceStart = 0

\* C10: once the callback has stopped playback at the end of the buffer, and
\* until a load resets the position, no step emits a block or moves the
\* position.
C10_EndOfStreamSticky ==
  [][(eos /\ eos') =>
       /\ current_frame' = current_frame
       /\ ~(cb_pc = "master" /\ cb_pc' = "adv_read")]_vars
====
